---------------------------- MODULE Spec2Model ----------------------------
(***************************************************************************)
(* A model of the ztbd repository: the DataNormalizer (dimension and       *)
(* association tables, review summary), the DatabaseManager's projections  *)
(* of the normalized tables into the four backends, and the cross-database *)
(* test harness (row normalization, execute_with_timing, run_all, and the  *)
(* TestRunner with its statistics, comparison, report and summary).        *)
(***************************************************************************)
EXTENDS Integers, Sequences, FiniteSets, TLC

(***************************************************************************)
(* Bounds of the model.                                                    *)
(***************************************************************************)
MaxGames == 2      \* rows of the Game table
MaxList == 2       \* entries of one game's list column
MaxEntries == 3    \* listed values over the whole Game table

VARIABLES
    games,            \* the Game table (games_df.df), a sequence of rows
    pc,               \* position of prepare_normalized_data
    normalized_data,  \* DatabaseManager.normalized_data: table name -> frame
    reviews,          \* the Review table (reviews_df.df), a sequence of rows
    rerun,            \* a second, independent run of the five extract_* calls
    months_back,      \* simulate_price_history: the months_back argument
    base_date,        \* simulate_price_history: the day datetime.now() gave
    importers,        \* DatabaseManager.importers: the backends initialised
    stored,           \* backend -> table name -> what the backend holds
    results,          \* DatabaseManager.results: backend -> status
    returned,         \* backend -> what import_to_<backend> returned
    raw_row,          \* a raw result row handed to BaseTest._normalize_row
    norm_rows,        \* the rows returned by successive _normalize_row calls
    connections,      \* the backends a test case is run against
    native,           \* backend -> what its native query function did
    test_results,     \* BaseTest.results: backend -> QueryResult
    run_pc,           \* position of BaseTest.run_all
    limit,            \* BaseTest.limit: the row limit of the test cases
    entry,            \* the entry point: tests.py main or test_runner.main
    repeats,          \* TestRunner.repeats
    runner_pc,        \* position of main
    case,             \* index in ALL_TESTS of the case being run
    run_number,       \* run_num + 1 of the run being executed
    all_run_results,  \* run_all_tests: the results of the runs of the case
    raw_executions,   \* TestRunner.raw_executions
    suite_results,    \* TestRunner.test_results
    comparison_results, \* TestRunner.comparison_results
    data_comparison,  \* what _compare_data_samples returned, and for which dbs
    statistics,       \* what _calculate_statistics returned
    printed,          \* the status print_summary printed for each comparison
    invoked,          \* the TestRunner methods main has called
    critical_error,   \* the exception that ended the try block of main
    exit_status,      \* the exit status of the process, once it has one
    open_connections  \* the backends whose connection is open

builderVars == <<games, reviews, pc, normalized_data, rerun, months_back, base_date>>
importVars == <<importers, stored, results, returned>>
runnerVars ==
    <<entry, repeats, runner_pc, case, run_number, all_run_results, raw_executions,
      suite_results, comparison_results, data_comparison, statistics, printed,
      invoked, critical_error, exit_status,
      open_connections>>
harnessVars ==
    <<raw_row, norm_rows, connections, native, test_results, run_pc, limit, runnerVars>>
vars == <<builderVars, importVars, harnessVars>>

(***************************************************************************)
(* Values of the Game table.                                               *)
(***************************************************************************)
\* Strings in ascending code-point order: Python's order on str.
CodeOrder == <<"", "Action", "RPG">>

Names == {CodeOrder[i] : i \in 1..Len(CodeOrder)}

Rank(n) == CHOOSE i \in 1..Len(CodeOrder) : CodeOrder[i] = n

\* a < b on str
StrLt(a, b) == Rank(a) < Rank(b)

Range(s) == {s[i] : i \in 1..Len(s)}

\* What parse_json_columns leaves in a cell: None, a str, or a list of str.
Null == [kind |-> "null", items |-> <<>>]
Str(s) == [kind |-> "str", items |-> <<s>>]
List(l) == [kind |-> "list", items |-> l]

ListColumns == {"developers", "publishers", "genres", "categories"}

DimTables == ListColumns \cup {"tags"}

\* The association table built from a dimension, and its id column.
AssocTable(col) ==
    CASE col = "developers" -> "game_developers"
      [] col = "publishers" -> "game_publishers"
      [] col = "genres" -> "game_genres"
      [] col = "categories" -> "game_categories"
      [] col = "tags" -> "game_tags"

IdField(col) ==
    CASE col = "developers" -> "developer_id"
      [] col = "publishers" -> "publisher_id"
      [] col = "genres" -> "genre_id"
      [] col = "categories" -> "category_id"
      [] col = "tags" -> "tag_id"


TagDict(l) == [kind |-> "dict", items |-> l]

(***************************************************************************)
(* DataNormalizer: dimension extraction.                                   *)
(***************************************************************************)
\* Every enumeration of a set: the iteration order of a Python set of str,
\* which changes from one interpreter run to the next (hash randomisation).
Orderings(S) ==
    {s \in [1..Cardinality(S) -> S] : \A i, j \in 1..Cardinality(S) : i # j => s[i] # s[j]}

RECURSIVE Insert(_, _)
Insert(x, s) ==
    IF s = <<>> THEN <<x>>
    ELSE IF ~StrLt(Head(s), x) THEN <<x>> \o s
    ELSE <<Head(s)>> \o Insert(x, Tail(s))

RECURSIVE SortAscending(_)
SortAscending(s) == IF s = <<>> THEN <<>> ELSE Insert(Head(s), SortAscending(Tail(s)))

\* A build that leaves the names in iteration order.
sorted_iteration_order(s) == s

\* sorted(names)
sorted(s) == SortAscending(s)

\* `pd.notna(v).any() and v`: pd.notna of None or of a str is a plain bool,
\* which has no .any(), so the guard raises AttributeError for them.
GuardRaises(v) == v.kind # "list"

GuardHolds(v) == v.kind = "list" /\ Len(v.items) > 0

ExtractRaises(g, col) == \E i \in 1..Len(g) : GuardRaises(g[i][col])

\* The set the loop collects: update() for a list, add() for a str.
Collected(g, col) ==
    UNION {IF g[i][col].kind = "list" THEN Range(g[i][col].items) ELSE {g[i][col].items[1]} :
           i \in {j \in 1..Len(g) : GuardHolds(g[j][col])}}

\* A frame that drops nothing: the empty name becomes a dimension row.
KeepName_all(n) == TRUE

\* the `if dev` of the comprehension
KeepName(n) == n # ""

\* pd.DataFrame([{'name': dev} for dev in sorted(developers) if dev])
DimensionFrame(order) ==
    LET kept == SelectSeq(sorted(order), KeepName)
    IN  [i \in 1..Len(kept) |-> [name |-> kept[i]]]

\* extract_developers / _publishers / _genres / _categories
extract_names(g, col, order) == DimensionFrame(order)

\* `if row['tags']` and isinstance(row['tags'], dict)
TagsTruthy(v) == v.kind = "dict" /\ Len(v.items) > 0

RECURSIVE TagItemsFrom(_, _)
TagItemsFrom(g, i) ==
    IF i > Len(g) THEN <<>>
    ELSE (IF TagsTruthy(g[i].tags) THEN g[i].tags.items ELSE <<>>) \o TagItemsFrom(g, i + 1)

\* int(votes) if votes else 0
IntVotes(v) == IF v # 0 THEN v ELSE 0

RECURSIVE VoteSum(_, _)
VoteSum(items, tag) ==
    IF items = <<>> THEN 0
    ELSE (IF Head(items)[1] = tag THEN IntVotes(Head(items)[2]) ELSE 0) + VoteSum(Tail(items), tag)

\* The keys of tags_dict in insertion order.
RECURSIVE DictKeys(_, _)
DictKeys(items, seen) ==
    IF items = <<>> THEN <<>>
    ELSE IF Head(items)[1] \in seen THEN DictKeys(Tail(items), seen)
    ELSE <<Head(items)[1]>> \o DictKeys(Tail(items), seen \cup {Head(items)[1]})

\* a Tag dimension that does not add up the votes
tags_without_votes(g) ==
    LET keys == sorted(DictKeys(TagItemsFrom(g, 1), {}))
    IN  [i \in 1..Len(keys) |-> [name |-> keys[i], total_votes |-> 0]]

\* extract_tags: sorted(tags_dict.items()) orders by tag, the keys being unique
extract_tags(g) ==
    LET items == TagItemsFrom(g, 1)
        keys == sorted(DictKeys(items, {}))
    IN  [i \in 1..Len(keys) |-> [name |-> keys[i], total_votes |-> VoteSum(items, keys[i])]]

(***************************************************************************)
(* DataNormalizer: association tables.                                     *)
(***************************************************************************)
FrameNames(df) == {df[i].name : i \in 1..Len(df)}

\* A lookup numbering the rows from 0.
Lookup_zero_based(df) ==
    [n \in FrameNames(df) |->
        (CHOOSE i \in 1..Len(df) : df[i].name = n /\ \A j \in (i+1)..Len(df) : df[j].name # n) - 1]

\* {row['name']: idx + 1 for idx, row in df.iterrows()}; the frame's index is
\* 0..n-1, so idx + 1 is the 1-based position of the row.
Lookup(df) ==
    [n \in FrameNames(df) |->
        CHOOSE i \in 1..Len(df) : df[i].name = n /\ \A j \in (i+1)..Len(df) : df[j].name # n]

AssocRow(appid, col, id) == ("game_appid" :> appid) @@ (IdField(col) :> id)

RECURSIVE ListAssociations(_, _, _, _)
ListAssociations(appid, col, items, lookup) ==
    IF items = <<>> THEN <<>>
    ELSE (IF Head(items) \in DOMAIN lookup
          THEN <<AssocRow(appid, col, lookup[Head(items)])>> ELSE <<>>)
         \o ListAssociations(appid, col, Tail(items), lookup)

RECURSIVE AssociationsFrom(_, _, _, _)
AssociationsFrom(g, col, lookup, i) ==
    IF i > Len(g) THEN <<>>
    ELSE (IF GuardHolds(g[i][col])
          THEN ListAssociations(g[i].appid, col, g[i][col].items, lookup) ELSE <<>>)
         \o AssociationsFrom(g, col, lookup, i + 1)

\* create_game_developer_associations and its three copies
create_game_associations(g, col, df) == AssociationsFrom(g, col, Lookup(df), 1)

RECURSIVE TagAssociations(_, _, _)
TagAssociations(appid, items, lookup) ==
    IF items = <<>> THEN <<>>
    ELSE (IF Head(items)[1] \in DOMAIN lookup
          THEN <<AssocRow(appid, "tags", lookup[Head(items)[1]])
                 @@ ("vote_count" :> IntVotes(Head(items)[2]))>>
          ELSE <<>>)
         \o TagAssociations(appid, Tail(items), lookup)

RECURSIVE TagAssociationsFrom(_, _, _)
TagAssociationsFrom(g, lookup, i) ==
    IF i > Len(g) THEN <<>>
    ELSE (IF TagsTruthy(g[i].tags) THEN TagAssociations(g[i].appid, g[i].tags.items, lookup) ELSE <<>>)
         \o TagAssociationsFrom(g, lookup, i + 1)

\* create_game_tag_associations
create_game_tag_associations(g, df) == TagAssociationsFrom(g, Lookup(df), 1)

(***************************************************************************)
(* The Game tables the builder is run on.  appid is unique                 *)
(* (prepare_games_dataframe drops duplicates).  Each extract_* and         *)
(* create_game_*_associations call reads one column and appid only, so a   *)
(* table varies one column and leaves the others empty.                    *)
(***************************************************************************)
AppId(i) == 10 * i

SeqsUpTo(S, n) == UNION {[1..k -> S] : k \in 0..n}

TagNames == Names \ {""}

VoteVals == {0, 2, 3}

\* dict literals: the keys of one dict are distinct
TagMaps ==
    {l \in SeqsUpTo(TagNames \X VoteVals, MaxList) :
        \A i, j \in 1..Len(l) : i # j => l[i][1] # l[j][1]}

ColumnValues(col) ==
    IF col = "tags"
    THEN {Null} \cup {TagDict(l) : l \in TagMaps}
    ELSE {Null} \cup {Str(n) : n \in TagNames} \cup {List(l) : l \in SeqsUpTo(Names, MaxList)}

EmptyRow(i) ==
    [appid |-> AppId(i), developers |-> List(<<>>), publishers |-> List(<<>>),
     genres |-> List(<<>>), categories |-> List(<<>>), tags |-> TagDict(<<>>)]

\* Rows i..n of a table that varies column col, with at most e listed values.
RECURSIVE RowsFrom(_, _, _, _)
RowsFrom(col, i, n, e) ==
    IF i > n THEN {<<>>}
    ELSE UNION {{<<[EmptyRow(i) EXCEPT ![col] = v]>> \o t :
                    t \in RowsFrom(col, i + 1, n, e - Len(v.items))} :
                v \in {w \in ColumnValues(col) : Len(w.items) <= e}}

GameTables(col, n) == RowsFrom(col, 1, n, MaxEntries)

(***************************************************************************)
(* DatabaseManager.prepare_normalized_data, one step per DataNormalizer    *)
(* call, in the order of the calls.                                        *)
(***************************************************************************)
Steps ==
    <<"developers", "publishers", "genres", "categories", "tags",
      "game_developers", "game_publishers", "game_genres", "game_categories", "game_tags">>

StepAfter(t) ==
    LET i == CHOOSE k \in 1..Len(Steps) : Steps[k] = t
    IN  IF i = Len(Steps) THEN "done" ELSE Steps[i + 1]

NoRerun == [status |-> "none", tables |-> <<>>]

Backends == {"mongodb", "neo4j", "postgresql", "mysql"}

\* DatabaseManager.__init__: no importer, no result; every store is empty.
InitManager ==
    /\ importers = {}
    /\ stored = [b \in Backends |-> <<>>]
    /\ results = [b \in Backends |-> "none"]
    /\ returned = [b \in Backends |-> "none"]

\* No test case has been constructed or run.
InitIdleRunner ==
    /\ entry = "none"
    /\ repeats = 1
    /\ runner_pc = "idle"
    /\ case = 1
    /\ run_number = 1
    /\ all_run_results = <<>>
    /\ raw_executions = <<>>
    /\ suite_results = <<>>
    /\ comparison_results = <<>>
    /\ data_comparison = <<>>
    /\ statistics = <<>>
    /\ printed = <<>>
    /\ invoked = {}
    /\ critical_error = <<>>
    /\ exit_status = <<>>
    /\ open_connections = {}

InitHarness ==
    /\ raw_row = <<>>
    /\ norm_rows = <<>>
    /\ connections = {}
    /\ native = <<>>
    /\ limit = 100
    /\ test_results = <<>>
    /\ run_pc = "idle"
    /\ InitIdleRunner

InitBuilder ==
    /\ \E col \in DimTables, n \in 0..MaxGames : games \in GameTables(col, n)
    /\ pc = Steps[1]
    /\ normalized_data = <<>>
    /\ rerun = NoRerun
    /\ months_back = 12
    /\ base_date = 0
    /\ reviews = <<>>
    /\ InitManager
    /\ InitHarness

Put(f, k, v) == (k :> v) @@ f

\* normalized_data[col] = DataNormalizer.extract_<col>(games_df)
extract_dimension(col) ==
    /\ pc = col
    /\ IF ExtractRaises(games, col)
       THEN /\ pc' = "raised"
            /\ UNCHANGED normalized_data
       ELSE /\ \E order \in Orderings(Collected(games, col)) :
                   normalized_data' = Put(normalized_data, col, extract_names(games, col, order))
            /\ pc' = StepAfter(col)
    /\ UNCHANGED <<games, reviews, months_back, base_date, rerun, importVars, harnessVars>>

\* normalized_data['tags'] = DataNormalizer.extract_tags(games_df)
extract_tags_step ==
    /\ pc = "tags"
    /\ normalized_data' = Put(normalized_data, "tags", extract_tags(games))
    /\ pc' = StepAfter("tags")
    /\ UNCHANGED <<games, reviews, months_back, base_date, rerun, importVars, harnessVars>>

\* normalized_data['game_<col>'] = create_game_<col>_associations(games_df, normalized_data[col])
create_associations(col) ==
    /\ pc = AssocTable(col)
    /\ IF ExtractRaises(games, col)
       THEN /\ pc' = "raised"
            /\ UNCHANGED normalized_data
       ELSE /\ normalized_data' =
                   Put(normalized_data, AssocTable(col),
                       create_game_associations(games, col, normalized_data[col]))
            /\ pc' = StepAfter(AssocTable(col))
    /\ UNCHANGED <<games, reviews, months_back, base_date, rerun, importVars, harnessVars>>

create_tag_associations ==
    /\ pc = "game_tags"
    /\ normalized_data' =
           Put(normalized_data, "game_tags",
               create_game_tag_associations(games, normalized_data["tags"]))
    /\ pc' = StepAfter("game_tags")
    /\ UNCHANGED <<games, reviews, months_back, base_date, rerun, importVars, harnessVars>>

\* A second run of the five extract_* calls over the same Game table, in
\* another interpreter: the sets iterate in an order of their own.
extract_again ==
    /\ pc \in {"done", "raised"}
    /\ rerun.status = "none"
    /\ IF \E col \in ListColumns : ExtractRaises(games, col)
       THEN rerun' = [status |-> "raised", tables |-> <<>>]
       ELSE \E od \in Orderings(Collected(games, "developers")),
               op \in Orderings(Collected(games, "publishers")),
               og \in Orderings(Collected(games, "genres")),
               oc \in Orderings(Collected(games, "categories")) :
                rerun' = [status |-> "ok",
                          tables |-> [developers |-> extract_names(games, "developers", od),
                                      publishers |-> extract_names(games, "publishers", op),
                                      genres |-> extract_names(games, "genres", og),
                                      categories |-> extract_names(games, "categories", oc),
                                      tags |-> extract_tags(games)]]
    /\ UNCHANGED <<games, reviews, months_back, base_date, pc, normalized_data, importVars, harnessVars>>

NextBuilder ==
    \/ \E col \in ListColumns : extract_dimension(col)
    \/ extract_tags_step
    \/ \E col \in ListColumns : create_associations(col)
    \/ create_tag_associations
    \/ extract_again

SpecBuilder == InitBuilder /\ [][NextBuilder]_vars

(***************************************************************************)
(* Claims about the dimension and association tables (SpecBuilder).        *)
(***************************************************************************)
Built(t) == t \in DOMAIN normalized_data

\* The (surrogate_id, name) pairs of a dimension frame, the id being the one
\* the association builders' lookup gives the name.
IdNamePairs(df) == [i \in 1..Len(df) |-> <<Lookup(df)[df[i].name], df[i].name>>]

\* C1: two independent runs of the five extract_* calls over the same Game
\* table return, for each dimension, the same (surrogate_id, name) pairs in
\* the same order (and the second run raises exactly when the first did).
C1_ExtractionDeterministic ==
    rerun.status # "none" =>
        /\ rerun.status = "raised" <=> pc = "raised"
        /\ rerun.status = "ok" =>
              \A col \in DimTables :
                  /\ Len(rerun.tables[col]) = Len(normalized_data[col])
                  /\ IdNamePairs(rerun.tables[col]) = IdNamePairs(normalized_data[col])
                  /\ \A i \in 1..Len(rerun.tables[col]) : IdNamePairs(rerun.tables[col])[i][1] = i

C1_Witness ==
    /\ pc = "done"
    /\ rerun.status = "ok"
    /\ \E col \in ListColumns : Len(normalized_data[col]) >= 2
    /\ Len(normalized_data["tags"]) = 0

Appids == {games[i].appid : i \in 1..Len(games)}

\* C3: in every association table built, every dimension id is the id of a
\* row of the dimension table (1..row count) and every game_appid is the
\* appid of a row of the Game table.
C3_ReferentialIntegrity ==
    \A col \in DimTables :
        Built(AssocTable(col)) =>
            \A k \in 1..Len(normalized_data[AssocTable(col)]) :
                LET r == normalized_data[AssocTable(col)][k]
                IN  /\ r[IdField(col)] \in 1..Len(normalized_data[col])
                    /\ r["game_appid"] \in Appids

C3_Witness ==
    /\ Built("game_developers") /\ Len(normalized_data["game_developers"]) >= 2
    /\ Len(normalized_data["developers"]) >= 2

CountIn(s, x) == Cardinality({k \in 1..Len(s) : s[k] = x})

\* The values listed by any game in a column.
Listed(col) == UNION {Range(games[i][col].items) : i \in 1..Len(games)}

ScenarioGames ==
    <<[EmptyRow(1) EXCEPT !["genres"] = List(<<"Action", "RPG">>)],
      [EmptyRow(2) EXCEPT !["genres"] = List(<<"Action">>)]>>

C5_PairIsKey ==
    \A col \in DimTables :
        Built(AssocTable(col)) =>
            LET assoc == normalized_data[AssocTable(col)]
            IN  \A k, l \in 1..Len(assoc) :
                    (/\ assoc[k]["game_appid"] = assoc[l]["game_appid"]
                     /\ assoc[k][IdField(col)] = assoc[l][IdField(col)]) => k = l

(***************************************************************************)
(* DatabaseManager: the projection of the derived tables into the four     *)
(* backends.  A store holds, per table, its rows and whether the table has *)
(* the schema of the ORM model ("model") or the columns of the frame that  *)
(* created it ("frame").                                                   *)
(***************************************************************************)
MaxImportGames == 1    \* rows of the Game table that is imported

\* Game tables whose developers column holds lists of non-empty names.
ImportGameTables ==
    {g \in UNION {RowsFrom("developers", 1, n, MaxEntries) : n \in 0..MaxImportGames} :
        \A i \in 1..Len(g) :
            g[i]["developers"].kind = "list" /\ "" \notin Range(g[i]["developers"].items)}

InitImport ==
    /\ games \in ImportGameTables
    /\ pc = Steps[1]
    /\ normalized_data = <<>>
    /\ rerun = NoRerun
    /\ months_back = 12
    /\ base_date = 0
    /\ reviews = <<>>
    /\ InitManager
    /\ InitHarness

\* Base.metadata.create_all of the importer's ORM models.
create_all(b) ==
    LET modelled == IF b = "mysql" THEN {"games"} \cup Range(Steps) ELSE {"games"}
    IN  [t \in modelled |-> [schema |-> "model", rows |-> <<>>]]

\* init_db(name): on success the importer is registered (the relational
\* importers create their model tables); on failure nothing changes.
init_db(name, ok) ==
    /\ pc = Steps[1]
    /\ name \notin importers
    /\ ok
    /\ importers' = importers \cup {name}
    /\ stored' = [stored EXCEPT ![name] =
                     IF name \in {"mysql", "postgresql"} THEN create_all(name) ELSE @]
    /\ UNCHANGED <<builderVars, harnessVars, results, returned>>

\* The importer classes that define import_dataframe.
HasImportDataframe(b) == b \in {"mongodb", "mysql"}

\* importer.clean_database(tables_to_drop): the listed tables are dropped;
\* the Neo4j import does not clean.
clean_database(b, store) == IF b = "neo4j" THEN store ELSE <<>>

\* The tables an import writes, in order: the Game table, then the derived
\* tables (when normalized_data is not empty).
ImportList(b) ==
    <<"games">> \o
    (IF normalized_data = <<>> THEN <<>>
     ELSE IF b = "neo4j" THEN <<"game_review_summary">> ELSE Steps)

Frame(t) == IF t = "games" THEN games ELSE normalized_data[t]

IsAssocTable(t) == \E col \in DimTables : t = AssocTable(col)

HasModelSchema(store, t) == t \in DOMAIN store /\ store[t].schema = "model"

\* A composite primary key of the model rejects two rows with the same pair.
PkViolation(store, t, df) ==
    /\ HasModelSchema(store, t)
    /\ IsAssocTable(t)
    /\ \E k, l \in 1..Len(df) :
           k # l /\ \A f \in DOMAIN df[k] \ {"vote_count"} : df[k][f] = df[l][f]

\* The autoincrement primary key of a model's dimension table.
WithAutoIds(t, df, n) ==
    IF t \in DimTables
    THEN [i \in 1..Len(df) |-> (IdField(t) :> (n + i)) @@ df[i]]
    ELSE df

\* to_sql(if_exists='append') / insert_many: rows are appended; a table that
\* does not exist is created with the frame's columns.
Write(store, t, df) ==
    IF HasModelSchema(store, t)
    THEN Put(store, t, [store[t] EXCEPT !.rows = @ \o WithAutoIds(t, df, Len(@))])
    ELSE IF t \in DOMAIN store
         THEN Put(store, t, [store[t] EXCEPT !.rows = @ \o df])
         ELSE Put(store, t, [schema |-> "frame", rows |-> df])

\* The body of the try block: the writes are made in order until one raises.
\* The store rejects write number accepted + 1.
RECURSIVE WriteTables(_, _, _, _, _)
WriteTables(b, store, tables, written, accepted) ==
    IF tables = <<>> THEN [store |-> store, raised |-> FALSE]
    ELSE IF \/ (Head(tables) # "games" /\ ~HasImportDataframe(b))
            \/ written >= accepted
            \/ PkViolation(store, Head(tables), Frame(Head(tables)))
         THEN [store |-> store, raised |-> TRUE]
         ELSE WriteTables(b, Write(store, Head(tables), Frame(Head(tables))),
                          Tail(tables), written + 1, accepted)

\* How many writes the store accepts: none, only the first, or all of them.
AcceptChoices == {0, 1, Len(Steps) + 1}

\* An import whose failure is recorded for every backend.
import_failure_spreads(b, drop, accepted) ==
    /\ pc = "done"
    /\ returned[b] = "none"
    /\ IF b \notin importers
       THEN /\ returned' = [returned EXCEPT ![b] = "False"]
            /\ UNCHANGED <<stored, results>>
       ELSE LET cleaned == IF drop THEN clean_database(b, stored[b]) ELSE stored[b]
                out == WriteTables(b, cleaned, ImportList(b), 0, accepted)
            IN  /\ stored' = [stored EXCEPT ![b] = out.store]
                /\ results' = IF out.raised THEN [o \in Backends |-> "failed"]
                              ELSE [results EXCEPT ![b] = "success"]
                /\ returned' = [returned EXCEPT ![b] =
                                   IF out.raised THEN "False" ELSE "True"]
    /\ UNCHANGED <<builderVars, harnessVars, importers>>

import_to(b, drop, accepted) ==
    /\ pc = "done"
    /\ returned[b] = "none"
    /\ IF b \notin importers
       THEN /\ returned' = [returned EXCEPT ![b] = "False"]
            /\ UNCHANGED <<stored, results>>
       ELSE LET cleaned == IF drop THEN clean_database(b, stored[b]) ELSE stored[b]
                out == WriteTables(b, cleaned, ImportList(b), 0, accepted)
            IN  /\ stored' = [stored EXCEPT ![b] = out.store]
                /\ results' = [results EXCEPT ![b] =
                                  IF out.raised THEN "failed" ELSE "success"]
                /\ returned' = [returned EXCEPT ![b] =
                                   IF out.raised THEN "False" ELSE "True"]
    /\ UNCHANGED <<builderVars, harnessVars, importers>>

import_to_mongodb(drop, accepted) == import_to("mongodb", drop, accepted)

import_to_neo4j(drop, accepted) == import_to("neo4j", drop, accepted)

import_to_postgresql(drop, accepted) == import_to("postgresql", drop, accepted)

import_to_mysql(drop, accepted) == import_to("mysql", drop, accepted)

NextImport ==
    \/ \E col \in ListColumns : extract_dimension(col)
    \/ extract_tags_step
    \/ \E col \in ListColumns : create_associations(col)
    \/ create_tag_associations
    \/ \E name \in Backends, ok \in BOOLEAN : init_db(name, ok)
    \/ \E drop \in BOOLEAN, accepted \in AcceptChoices : import_to_mongodb(drop, accepted)
    \/ \E drop \in BOOLEAN, accepted \in AcceptChoices : import_to_neo4j(drop, accepted)
    \/ \E drop \in BOOLEAN, accepted \in AcceptChoices : import_to_postgresql(drop, accepted)
    \/ \E drop \in BOOLEAN, accepted \in AcceptChoices : import_to_mysql(drop, accepted)

SpecImport == InitImport /\ [][NextImport]_vars

\* The rows a backend holds of a table (none when it has no such table).
StoredRows(b, t) == IF t \in DOMAIN stored[b] THEN stored[b][t].rows ELSE <<>>

\* C2: every dimension row held by a backend carries the surrogate id the
\* builder gave its name (the id the association tables use), and a backend
\* whose import of the derived tables succeeded holds every dimension name.
C2_StoredIdIsBuilderId ==
    \A b \in Backends, col \in DimTables :
        /\ \A k \in 1..Len(StoredRows(b, col)) :
               LET r == StoredRows(b, col)[k]
               IN  /\ IdField(col) \in DOMAIN r
                   /\ r[IdField(col)] = Lookup(normalized_data[col])[r.name]
        /\ results[b] = "success" =>
               {StoredRows(b, col)[k].name : k \in 1..Len(StoredRows(b, col))}
                   = FrameNames(normalized_data[col])

(***************************************************************************)
(* DataNormalizer.create_game_review_summary: the reviews grouped by       *)
(* app_id.  Of the aggregated columns the model keeps the three counters   *)
(* and the mean of votes_helpful, a float kept in hundredths.              *)
(***************************************************************************)
MaxReviews == 3    \* rows of the Review table

ReviewAppIds == {AppId(1), AppId(2)}

HelpfulVals == {0, 4}

\* Review tables: review_id is the primary key, unique and sorted; every
\* review has an app_id, a boolean recommended and a votes_helpful count.
ReviewTables(n) ==
    {[i \in 1..n |-> [review_id |-> i, app_id |-> f[i][1],
                      recommended |-> f[i][2], votes_helpful |-> f[i][3]]] :
        f \in [1..n -> ReviewAppIds \X BOOLEAN \X HelpfulVals]}

InitSummary ==
    /\ \E n \in 1..MaxReviews : reviews \in ReviewTables(n)
    /\ games = <<>>
    /\ pc = Steps[1]
    /\ normalized_data = <<>>
    /\ rerun = NoRerun
    /\ months_back = 12
    /\ base_date = 0
    /\ InitManager
    /\ InitHarness

\* groupby sorts the group keys ascending.
RECURSIVE Ascending(_)
Ascending(S) ==
    IF S = {} THEN <<>>
    ELSE LET m == CHOOSE x \in S : \A y \in S : x <= y
         IN  <<m>> \o Ascending(S \ {m})

RECURSIVE SumSeq(_)
SumSeq(s) == IF s = <<>> THEN 0 ELSE Head(s) + SumSeq(Tail(s))

\* a column of a group of rows
Column(g, field) == [i \in 1..Len(g) |-> g[i][field]]

\* a boolean summed counts as 1 or 0
AsInt(b) == IF b THEN 1 ELSE 0

\* ~x of an integer column: the bitwise complement, -(x + 1)
inverted_sum_of_integers(x) == SumSeq([i \in 1..Len(x) |-> 0 - (AsInt(x[i]) + 1)])

\* lambda x: (~x).sum() over the boolean column
inverted_sum(x) == SumSeq([i \in 1..Len(x) |-> AsInt(~x[i])])

\* 'sum' of a boolean column
sum(x) == SumSeq([i \in 1..Len(x) |-> AsInt(x[i])])

\* 'mean', in hundredths
mean(x) == (SumSeq(x) * 100) \div Len(x)

create_game_review_summary(df) ==
    LET keys == Ascending({df[i].app_id : i \in 1..Len(df)})
        group(a) == SelectSeq(df, LAMBDA r : r.app_id = a)
    IN  [k \in 1..Len(keys) |->
            [game_appid |-> keys[k],
             total_reviews |-> Len(group(keys[k])),
             positive_reviews |-> sum(Column(group(keys[k]), "recommended")),
             negative_reviews |-> inverted_sum(Column(group(keys[k]), "recommended")),
             avg_helpful_votes |-> mean(Column(group(keys[k]), "votes_helpful"))]]

\* normalized_data['game_review_summary'] = create_game_review_summary(games_df, reviews_df)
review_summary_step ==
    /\ "game_review_summary" \notin DOMAIN normalized_data
    /\ normalized_data' =
           Put(normalized_data, "game_review_summary", create_game_review_summary(reviews))
    /\ UNCHANGED <<games, reviews, months_back, base_date, pc, rerun, importVars, harnessVars>>

NextSummary == review_summary_step

SpecSummary == InitSummary /\ [][NextSummary]_vars

ReviewsOf(a) == {i \in 1..Len(reviews) : reviews[i].app_id = a}

ScenarioReviews ==
    <<[review_id |-> 1, app_id |-> AppId(1), recommended |-> TRUE, votes_helpful |-> 4],
      [review_id |-> 2, app_id |-> AppId(1), recommended |-> FALSE, votes_helpful |-> 0]>>

\* C6: the review summary has exactly one row for every app_id with at least
\* one review and no other row; its total_reviews is the number of the
\* game's reviews, positive_reviews the number recommended, negative_reviews
\* the number not recommended, so positive + negative = total; the scenario
\* reviews give total 2, positive 1, negative 1 and avg_helpful_votes 2.0.
C6_ReviewSummary ==
    Built("game_review_summary") =>
        LET summary == normalized_data["game_review_summary"]
        IN  /\ {summary[k].game_appid : k \in 1..Len(summary)}
                   = {reviews[i].app_id : i \in 1..Len(reviews)}
            /\ \A k, l \in 1..Len(summary) :
                   summary[k].game_appid = summary[l].game_appid => k = l
            /\ \A k \in 1..Len(summary) :
                   LET mine == ReviewsOf(summary[k].game_appid)
                   IN  /\ summary[k].total_reviews = Cardinality(mine)
                       /\ summary[k].positive_reviews
                              = Cardinality({i \in mine : reviews[i].recommended})
                       /\ summary[k].negative_reviews
                              = Cardinality({i \in mine : ~reviews[i].recommended})
                       /\ summary[k].positive_reviews + summary[k].negative_reviews
                              = summary[k].total_reviews
            /\ reviews = ScenarioReviews =>
                   summary = <<[game_appid |-> AppId(1), total_reviews |-> 2,
                                positive_reviews |-> 1, negative_reviews |-> 1,
                                avg_helpful_votes |-> 200]>>

C6_Witness == reviews = ScenarioReviews /\ Built("game_review_summary")

(***************************************************************************)
(* BaseTest._normalize_row.  A Python value is a record of its type t, its *)
(* number n (floats and Decimals in thousandths, a bool as 1 or 0, a       *)
(* datetime as its ordinal) and its characters s; a dict is the sequence   *)
(* of its items in insertion order.                                        *)
(***************************************************************************)
MaxFields == 2         \* fields of a raw row
NormalizePasses == 2   \* successive calls of _normalize_row on one row

PyNone == [t |-> "NoneType", n |-> 0, s |-> <<>>]
PyBool(b) == [t |-> "bool", n |-> AsInt(b), s |-> <<>>]
PyInt(i) == [t |-> "int", n |-> i, s |-> <<>>]
PyFloat(th) == [t |-> "float", n |-> th, s |-> <<>>]
PyDecimal(th) == [t |-> "Decimal", n |-> th, s |-> <<>>]
PyDatetime(d) == [t |-> "datetime", n |-> d, s |-> <<>>]
PyStr(chars) == [t |-> "str", n |-> 0, s |-> chars]
PyList == [t |-> "list", n |-> 0, s |-> <<>>]

\* isinstance(value, int): bool is a subclass of int
IsInstanceInt(value) == value.t \in {"int", "bool"}

\* isinstance(value, (int, float, Decimal))
IsInstanceNumeric(value) == IsInstanceInt(value) \/ value.t \in {"float", "Decimal"}

\* float(value), in thousandths
ToFloat(value) == IF IsInstanceInt(value) THEN value.n * 1000 ELSE value.n

\* round(x, 2) of a float in thousandths (a tie goes to the even hundredth)
Round2(th) ==
    LET r == th % 10
    IN  IF r < 5 THEN th - r
        ELSE IF r > 5 THEN th + (10 - r)
        ELSE IF ((th - r) \div 10) % 2 = 0 THEN th - r ELSE th + 5

\* datetime.isoformat()
isoformat(d) == IF d = 1 THEN <<"1", "T">> ELSE <<"2", "T">>

RECURSIVE lstrip(_)
lstrip(chars) ==
    IF chars # <<>> /\ Head(chars) = " " THEN lstrip(Tail(chars)) ELSE chars

RECURSIVE rstrip(_)
rstrip(chars) ==
    IF chars # <<>> /\ chars[Len(chars)] = " "
    THEN rstrip(SubSeq(chars, 1, Len(chars) - 1)) ELSE chars

\* strips one blank at each end only
strip_once(chars) ==
    LET l == IF chars # <<>> /\ Head(chars) = " " THEN Tail(chars) ELSE chars
    IN  IF l # <<>> /\ l[Len(l)] = " " THEN SubSeq(l, 1, Len(l) - 1) ELSE l

\* str.strip()
strip(chars) == rstrip(lstrip(chars))

\* str.lower() of a field name
lower(key) == CASE key = "A" -> "a" [] OTHER -> key

\* The if/elif chain applied to one value, in the order of the code.
normalize_value(value) ==
    IF value.t = "NoneType" THEN PyNone
    ELSE IF IsInstanceNumeric(value)
         THEN IF IsInstanceInt(value) \/ ToFloat(value) % 1000 = 0
              THEN PyInt(ToFloat(value) \div 1000)
              ELSE PyFloat(Round2(ToFloat(value)))
    ELSE IF value.t = "datetime" THEN PyStr(isoformat(value.n))
    ELSE IF value.t = "bool" THEN PyBool(value.n # 0)
    ELSE IF value.t = "str" THEN PyStr(strip(value.s))
    ELSE value

\* normalized[norm_key] = ...: a key already present keeps its position
DictSet(d, k, v) ==
    IF \E i \in 1..Len(d) : d[i].key = k
    THEN [i \in 1..Len(d) |-> IF d[i].key = k THEN [key |-> k, value |-> v] ELSE d[i]]
    ELSE Append(d, [key |-> k, value |-> v])

RECURSIVE NormalizeItems(_, _)
NormalizeItems(items, normalized) ==
    IF items = <<>> THEN normalized
    ELSE NormalizeItems(Tail(items),
                        DictSet(normalized, lower(Head(items).key),
                                normalize_value(Head(items).value)))

normalize_row(row) == NormalizeItems(row, <<>>)

FieldNames == {"A", "a", "b"}

StrVals ==
    {<<>>, <<" ">>, <<"a">>, <<" ", "a">>, <<"a", " ">>, <<" ", "a", " ">>,
     <<" ", " ", "a">>, <<"a", " ", "a">>}

\* Values a backend driver returns.  No float lies midway between two
\* hundredths.
RowValues ==
    {PyNone, PyBool(TRUE), PyBool(FALSE), PyList, PyDatetime(1)}
        \cup {PyInt(i) : i \in {0, 1, 3}}
        \cup {PyFloat(th) : th \in {1234, 2996, 2999, 3000, -1500}}
        \cup {PyDecimal(th) : th \in {2500, 3000}}
        \cup {PyStr(chars) : chars \in StrVals}

RawRows(n) ==
    {[i \in 1..n |-> [key |-> ks[i], value |-> vs[i]]] :
        ks \in {k \in [1..n -> FieldNames] : \A i, j \in 1..n : i # j => k[i] # k[j]},
        vs \in [1..n -> RowValues]}

InitIdleBuilder ==
    /\ games = <<>>
    /\ reviews = <<>>
    /\ pc = Steps[1]
    /\ normalized_data = <<>>
    /\ rerun = NoRerun
    /\ months_back = 12
    /\ base_date = 0
    /\ InitManager

InitNormalize ==
    /\ \E n \in 0..MaxFields : raw_row \in RawRows(n)
    /\ norm_rows = <<>>
    /\ connections = {}
    /\ native = <<>>
    /\ limit = 100
    /\ test_results = <<>>
    /\ run_pc = "idle"
    /\ InitIdleRunner
    /\ InitIdleBuilder

\* One more call of _normalize_row, on the row the previous call returned.
normalize_again ==
    /\ Len(norm_rows) < NormalizePasses
    /\ norm_rows' = Append(norm_rows,
                           normalize_row(IF norm_rows = <<>> THEN raw_row
                                         ELSE norm_rows[Len(norm_rows)]))
    /\ UNCHANGED <<builderVars, importVars, raw_row, connections, native, test_results, run_pc, runnerVars, limit>>

NextNormalize == normalize_again

SpecNormalize == InitNormalize /\ [][NextNormalize]_vars

\* Python's == on two values: numbers compare by value whatever their type.
PyEq(x, y) ==
    IF IsInstanceNumeric(x) /\ IsInstanceNumeric(y) THEN ToFloat(x) = ToFloat(y) ELSE x = y

DictKeySet(d) == {d[i].key : i \in 1..Len(d)}

DictGet(d, k) == d[CHOOSE i \in 1..Len(d) : d[i].key = k].value

\* Python's == on two dicts
DictEq(d, e) ==
    /\ DictKeySet(d) = DictKeySet(e)
    /\ \A k \in DictKeySet(d) : PyEq(DictGet(d, k), DictGet(e, k))

\* C7: row normalization is idempotent: normalizing a normalized row gives
\* a row equal to it, for rows of nulls, integers, whole and fractional
\* floats and decimals, booleans, timestamps and strings with surrounding
\* whitespace, field names differing only in case included.
C7_NormalizeIdempotent ==
    \A p \in 2..Len(norm_rows) : DictEq(norm_rows[p], norm_rows[p - 1])

C7_Witness ==
    /\ Len(norm_rows) >= 2
    /\ Len(raw_row) = 2
    /\ DictKeySet(raw_row) = {"A", "a"}
    /\ \E i \in 1..Len(raw_row) : raw_row[i].value = PyFloat(2999)
    /\ \E i \in 1..Len(raw_row) : raw_row[i].value = PyStr(<<" ", " ", "a">>)

\* C8: a boolean field is emitted unchanged, as the boolean it was and never
\* as the integer 1 or 0.
C8_BooleansUnchanged ==
    Len(norm_rows) >= 1 =>
        \A i \in 1..Len(raw_row) :
            (/\ raw_row[i].value.t = "bool"
             /\ \A j \in 1..Len(raw_row) : lower(raw_row[j].key) = lower(raw_row[i].key) => j = i)
                => DictGet(norm_rows[1], lower(raw_row[i].key)) = raw_row[i].value

(***************************************************************************)
(* BaseTest.run_all and execute_with_timing.  A backend's query function   *)
(* (run_postgresql, ...) runs its native query and either raises, builds a *)
(* QueryResult from the raw rows, or returns raw data.                     *)
(***************************************************************************)
MaxRows == 1    \* raw rows a native query returns

RunOrder == <<"postgresql", "mysql", "mongodb", "neo4j">>

\* Raw rows as a driver returns them.
ExecRows ==
    {<<[key |-> "A", value |-> PyBool(TRUE)]>>,
     <<[key |-> "b", value |-> PyFloat(2999)]>>}

\* Driver errors are subclasses of Exception; str(e) may be empty.
NativeErrors ==
    {[class |-> c, message |-> m] : c \in {"OperationalError", "KeyError"},
                                    m \in {"", "connection lost"}}

NoException == [class |-> "none", message |-> ""]

\* What the native query does: raises e, or yields rows that the query
\* function wraps in a QueryResult ("QueryResult"), returns as a list
\* ("list"), or it returns something that is not a list ("other").
NativeOutcomes ==
    {[kind |-> "raises", rows |-> <<>>, exception |-> e] : e \in NativeErrors}
        \cup {[kind |-> k, rows |-> r, exception |-> NoException] :
                 k \in {"QueryResult", "list"}, r \in SeqsUpTo(ExecRows, MaxRows)}
        \cup {[kind |-> "other", rows |-> <<>>, exception |-> NoException]}

None == <<>>

\* The methods class QueryResult defines; _normalize_row is a method of BaseTest.
QueryResultMethods == {"__post_init__"}

\* QueryResult(rows=..., error=...) with __post_init__: row_count is
\* len(rows) and each row goes through self._normalize_row.
QueryResult(rows, execution_time, error) ==
    IF rows # <<>> /\ "_normalize_row" \notin QueryResultMethods
    THEN [raised |-> [class |-> "AttributeError", message |-> "no attribute _normalize_row"],
          value |-> None]
    ELSE [raised |-> NoException,
          value |-> <<[rows |-> [i \in 1..Len(rows) |-> normalize_row(rows[i])],
                       row_count |-> Len(rows),
                       execution_time |-> execution_time,
                       error |-> error]>>]

\* `except Exception` catches every subclass of Exception.
catches_key_error_only(class) == class = "KeyError"

Catches(class) == class \in {"OperationalError", "KeyError", "AttributeError"}

\* The try block of execute_with_timing: the exception it ends with, if any,
\* and the result it returns otherwise.
TryBlock(outcome) ==
    IF outcome.kind = "raises" THEN [raised |-> outcome.exception, value |-> None]
    ELSE QueryResult(outcome.rows, "elapsed", None)

\* execute_with_timing(db_name, func): the QueryResult returned, or the
\* exception that escapes.
execute_with_timing(outcome) ==
    LET try == TryBlock(outcome)
    IN  IF try.raised = NoException THEN try
        ELSE IF Catches(try.raised.class)
             THEN QueryResult(<<>>, "0.0", <<try.raised.message>>)
             ELSE try

StepAfterRun(db) ==
    IF \E i \in 1..(Len(RunOrder) - 1) : RunOrder[i] = db
    THEN RunOrder[(CHOOSE i \in 1..Len(RunOrder) : RunOrder[i] = db) + 1]
    ELSE "returned"

InitExec ==
    /\ connections \in SUBSET Backends
    /\ native = <<>>
    /\ limit = 100
    /\ test_results = <<>>
    /\ run_pc = RunOrder[1]
    /\ raw_row = <<>>
    /\ norm_rows = <<>>
    /\ InitIdleRunner
    /\ InitIdleBuilder

\* if db in connections: self.results[db] = self.execute_with_timing(db, self.run_<db>, ...)
run_on(db, outcome) ==
    /\ run_pc = db
    /\ db \in connections
    /\ native' = Put(native, db, outcome)
    /\ LET r == execute_with_timing(outcome)
       IN  IF r.raised = NoException
           THEN /\ test_results' = Put(test_results, db, r.value[1])
                /\ run_pc' = StepAfterRun(db)
           ELSE /\ run_pc' = "raised"
                /\ UNCHANGED test_results
    /\ UNCHANGED <<builderVars, importVars, raw_row, norm_rows, connections, runnerVars, limit>>

skip(db) ==
    /\ run_pc = db
    /\ db \notin connections
    /\ run_pc' = StepAfterRun(db)
    /\ UNCHANGED <<builderVars, importVars, raw_row, norm_rows, connections, native, test_results, runnerVars, limit>>

NextExec ==
    \/ \E db \in Backends, outcome \in NativeOutcomes : run_on(db, outcome)
    \/ \E db \in Backends : skip(db)

SpecExec == InitExec /\ [][NextExec]_vars

\* 'success': result.error is None
Success(result) == result.error = None

\* C9: no exception of a query function escapes execute_with_timing: a
\* failed query is recorded with zero rows, row_count 0 and a non-null
\* error (success false), a query that matched zero rows with a null error
\* (success true).
C9_FailureIsDistinguishable ==
    /\ run_pc # "raised"
    /\ \A db \in DOMAIN native :
           /\ db \in DOMAIN test_results
           /\ native[db].kind = "raises" =>
                  /\ test_results[db].rows = <<>>
                  /\ test_results[db].row_count = 0
                  /\ test_results[db].error # None
                  /\ ~Success(test_results[db])
           /\ (native[db].kind # "raises" /\ native[db].rows = <<>>) =>
                  /\ test_results[db].error = None
                  /\ Success(test_results[db])
                  /\ test_results[db].row_count = 0

C9_Witness ==
    /\ run_pc = "returned"
    /\ \E db \in DOMAIN native :
           native[db].kind = "raises" /\ native[db].exception.message = ""
    /\ \E db \in DOMAIN native :
           native[db].kind = "QueryResult" /\ native[db].rows = <<>>

\* C10: a native query that completes without error and returns k >= 1 raw
\* rows is recorded as a success (error null) with row_count = k and its k
\* rows in normalized form.
C10_RowsRecorded ==
    \A db \in DOMAIN native :
        (native[db].kind \in {"QueryResult", "list"} /\ Len(native[db].rows) >= 1) =>
            /\ db \in DOMAIN test_results
            /\ Success(test_results[db])
            /\ test_results[db].row_count = Len(native[db].rows)
            /\ test_results[db].rows =
                   [i \in 1..Len(native[db].rows) |-> normalize_row(native[db].rows[i])]

(***************************************************************************)
(* TestRunner._calculate_statistics: the statistics of one case over its   *)
(* runs.  A measured time is kept as the expression that measures it and a *)
(* value of the statistics module as the call that computes it; an         *)
(* optional number is None or the one-element sequence of the number.      *)
(***************************************************************************)
MaxRuns == 4    \* runs of the case handed to _calculate_statistics

\* statistics.mean(timings), statistics.median(timings), ...
Statistic(fn, timings) == <<[fn |-> fn, of |-> timings]>>

\* the literal 0 in the place of a latency statistic
IntZero == <<[fn |-> "0", of |-> <<>>]>>

\* Every run counts as a success, the failed ones included.
EveryRun(runs, db_name) == runs

\* The runs of all_run_results in which db_name succeeded (result.error is None).
SuccessfulRuns(runs, db_name) ==
    LET Ok(run_results) == Success(run_results[db_name])
    IN  SelectSeq(runs, Ok)

\* successes / len(all_run_results), in percent
success_rate(successes, runs) == (successes * 100) \div Len(runs)

\* reports a backend without a successful run as one whose runs took no time
zero_latency(failures) ==
    [mean |-> IntZero, median |-> IntZero, std |-> IntZero, min |-> IntZero,
     max |-> IntZero, successes |-> 0, failures |-> failures, success_rate |-> 0,
     avg_row_count |-> <<0>>]

\* else: stats[db_name] = {'mean': None, ..., 'avg_row_count': 0}
no_successful_runs(failures) ==
    [mean |-> None, median |-> None, std |-> None, min |-> None, max |-> None,
     successes |-> 0, failures |-> failures, success_rate |-> 0,
     avg_row_count |-> <<0>>]

\* The body of `for db_name in db_names`.
db_stats(runs, db_name) ==
    LET ok == SuccessfulRuns(runs, db_name)
        timings == [i \in 1..Len(ok) |-> ok[i][db_name].execution_time]
        row_counts == [i \in 1..Len(ok) |-> ok[i][db_name].row_count]
        successes == Len(ok)
        failures == Len(runs) - Len(ok)
    IN  IF timings # <<>>
        THEN [mean |-> Statistic("mean", timings),
              median |-> Statistic("median", timings),
              std |-> IF Len(timings) > 1 THEN Statistic("stdev", timings) ELSE IntZero,
              min |-> Statistic("min", timings),
              max |-> Statistic("max", timings),
              successes |-> successes,
              failures |-> failures,
              success_rate |-> success_rate(successes, runs),
              avg_row_count |-> <<(SumSeq(row_counts) * 100) \div Len(row_counts)>>]
        ELSE no_successful_runs(failures)

calculate_statistics(runs) ==
    IF runs = <<>> THEN <<>>
    ELSE [db_name \in DOMAIN runs[1] |-> db_stats(runs, db_name)]

\* The QueryResult of a run that matched no row and took 3 or 5 ms, and of
\* one that failed (execution_time 0.0).  Times are kept in milliseconds.
RunResults ==
    {QueryResult(<<>>, 3, None).value[1],
     QueryResult(<<>>, 5, None).value[1],
     QueryResult(<<>>, 0, <<"connection lost">>).value[1]}

InitStats ==
    /\ connections \in {{"postgresql"}, {"postgresql", "mysql"}}
    /\ \E R \in 1..MaxRuns : all_run_results \in [1..R -> [connections -> RunResults]]
    /\ statistics = <<>>
    /\ entry = "none"
    /\ repeats = Len(all_run_results)
    /\ runner_pc = "idle"
    /\ case = 1
    /\ run_number = 1
    /\ raw_executions = <<>>
    /\ suite_results = <<>>
    /\ comparison_results = <<>>
    /\ data_comparison = <<>>
    /\ printed = <<>>
    /\ invoked = {}
    /\ critical_error = <<>>
    /\ exit_status = <<>>
    /\ open_connections = {}
    /\ raw_row = <<>>
    /\ norm_rows = <<>>
    /\ native = <<>>
    /\ limit = 100
    /\ test_results = <<>>
    /\ run_pc = "idle"
    /\ InitIdleBuilder

\* stats = self._calculate_statistics(all_run_results)
calculate ==
    /\ statistics = <<>>
    /\ statistics' = <<calculate_statistics(all_run_results)>>
    /\ UNCHANGED <<builderVars, importVars, raw_row, norm_rows, connections, native,
                   test_results, run_pc, entry, repeats, runner_pc, case, run_number,
                   all_run_results, raw_executions, suite_results, comparison_results,
                   data_comparison, printed, invoked, critical_error, exit_status, open_connections, limit>>

NextStats == calculate

SpecStats == InitStats /\ [][NextStats]_vars

\* The backends none of whose runs succeeded.
AllFailed == {db \in connections : SuccessfulRuns(all_run_results, db) = <<>>}

C15_FailedBackendAllUndefined ==
    statistics # <<>> =>
        \A db \in AllFailed :
            LET st == statistics[1][db]
            IN  \A v \in {st.mean, st.median, st.std, st.min, st.max, st.avg_row_count} :
                    v = None


(***************************************************************************)
(* TestRunner._compare_data_samples: the first of the successful backends  *)
(* is the reference and each other one is compared with it.  The function  *)
(* reads only the rows of each result.  Of its return value the model      *)
(* keeps the four verdicts and leaves out the issue messages.              *)
(***************************************************************************)
MaxCompareRows == 1    \* rows of a result handed to _compare_data_samples

\* isinstance(value, (int, float))
IsIntOrFloat(value) == IsInstanceInt(value) \/ value.t = "float"

Abs(x) == IF x < 0 THEN -x ELSE x

\* A mismatch of one field: abs(ref_val - test_val) > 0.01 for two numbers
\* (10 thousandths), ref_val != test_val otherwise.
ValuesDiffer(ref_val, test_val) ==
    IF IsIntOrFloat(ref_val) /\ IsIntOrFloat(test_val)
    THEN Abs(ToFloat(ref_val) - ToFloat(test_val)) > 10
    ELSE ~PyEq(ref_val, test_val)

\* takes a field of the candidate that the reference lacks for no difference
fields_missing_in_test(ref_fields, test_fields) == ref_fields \ test_fields # {}

\* if ref_fields != test_fields
fields_differ(ref_fields, test_fields) == ref_fields # test_fields

\* data_mismatches is non-empty: some common field of one of the first
\* min(10, len(ref_rows)) rows differs.
DataMismatches(ref_rows, test_rows) ==
    \E i \in 1..(IF Len(ref_rows) < 10 THEN Len(ref_rows) ELSE 10) :
        \E field \in DictKeySet(ref_rows[i]) \cap DictKeySet(test_rows[i]) :
            ValuesDiffer(DictGet(ref_rows[i], field), DictGet(test_rows[i], field))

\* A comparison that does not look at the number of rows.
compare_ignoring_row_count(ref_rows, test_rows) ==
    [row_count_matches |-> TRUE,
     field_name_matches |-> TRUE,
     data_matches |-> Len(ref_rows) = Len(test_rows) /\ ~DataMismatches(ref_rows, test_rows)]

\* The body of `for db in dbs[1:]`: what one candidate does to the verdicts.
compare_with_reference(ref_rows, test_rows) ==
    IF Len(ref_rows) # Len(test_rows)
    THEN [row_count_matches |-> FALSE, field_name_matches |-> TRUE, data_matches |-> TRUE]
    ELSE [row_count_matches |-> TRUE,
          field_name_matches |->
              ~(/\ ref_rows # <<>>
                /\ test_rows # <<>>
                /\ fields_differ(DictKeySet(ref_rows[1]), DictKeySet(test_rows[1]))),
          data_matches |-> ~DataMismatches(ref_rows, test_rows)]

compare_data_samples(results_of, dbs) ==
    LET verdict(i) == compare_with_reference(results_of[dbs[1]].rows, results_of[dbs[i]].rows)
        row_count_matches == \A i \in 2..Len(dbs) : verdict(i).row_count_matches
        field_name_matches == \A i \in 2..Len(dbs) : verdict(i).field_name_matches
        data_matches == \A i \in 2..Len(dbs) : verdict(i).data_matches
    IN  [match |-> row_count_matches /\ field_name_matches /\ data_matches,
         row_count_matches |-> row_count_matches,
         data_matches |-> data_matches,
         field_name_matches |-> field_name_matches]

\* Normalized rows: 0, 0.01 and -0.01 (whose distances 0.01 and 0.02 are
\* exact at the tolerance) or a string under "a", with or without a field "b".
CompareRowValues ==
    {<<[key |-> "a", value |-> v]>> : v \in {PyInt(0), PyFloat(10), PyFloat(-10), PyStr(<<"x">>)}}
        \cup {<<[key |-> "a", value |-> PyInt(0)], [key |-> "b", value |-> PyStr(<<"x">>)]>>}

InitCompare ==
    /\ connections = {"postgresql", "mysql", "mongodb"}
    /\ test_results \in [connections ->
           {[rows |-> r, row_count |-> Len(r), execution_time |-> "elapsed", error |-> None] :
                r \in SeqsUpTo(CompareRowValues, MaxCompareRows)}]
    /\ raw_row = <<>>
    /\ norm_rows = <<>>
    /\ native = <<>>
    /\ limit = 100
    /\ run_pc = "idle"
    /\ InitIdleRunner
    /\ InitIdleBuilder

\* The body of `for test_result in self.test_results` of compare_results.
compare_case(test_result) ==
    LET Ok(db) == db \in DOMAIN test_result.results /\ Success(test_result.results[db])
        successful_dbs == SelectSeq(RunOrder, Ok)
    IN  IF Len(successful_dbs) < 2
        THEN [test_name |-> test_result.test,
              successful_databases |-> successful_dbs,
              comparison_possible |-> FALSE,
              reason |-> "Insufficient successful results"]
        ELSE [test_name |-> test_result.test,
              successful_databases |-> successful_dbs,
              comparison_possible |-> TRUE,
              row_count_match |->
                  Cardinality({test_result.results[db].row_count : db \in Range(successful_dbs)}) = 1,
              data_comparison |-> compare_data_samples(test_result.results, successful_dbs)]

\* compare_results over one test result holding BaseTest.results.
compare_results_of_case ==
    /\ comparison_results = <<>>
    /\ data_comparison = <<>>
    /\ comparison_results' =
           <<compare_case([test |-> "SimpleSelectTest", results |-> test_results])>>
    /\ UNCHANGED <<builderVars, importVars, raw_row, norm_rows, connections, native,
                   test_results, run_pc, entry, repeats, runner_pc, case, run_number,
                   all_run_results, raw_executions, suite_results, data_comparison,
                   statistics, printed, invoked, critical_error, exit_status, open_connections, limit>>

\* data_comparison = self._compare_data_samples(results, successful_dbs)
compare_samples(dbs) ==
    /\ data_comparison = <<>>
    /\ comparison_results = <<>>
    /\ Len(dbs) >= 2
    /\ data_comparison' = <<[dbs |-> dbs, details |-> compare_data_samples(test_results, dbs)]>>
    /\ UNCHANGED <<builderVars, importVars, raw_row, norm_rows, connections, native,
                   test_results, run_pc, entry, repeats, runner_pc, case, run_number,
                   all_run_results, raw_executions, suite_results, comparison_results,
                   statistics, printed, invoked, critical_error, exit_status, open_connections, limit>>

NextCompare ==
    \/ \E S \in SUBSET connections : \E dbs \in Orderings(S) : compare_samples(dbs)
    \/ compare_results_of_case

SpecCompare == InitCompare /\ [][NextCompare]_vars

\* Two result sets agree: same row count, same field names in the first
\* row, no differing value in the sampled rows.
Agree(ref_rows, test_rows) ==
    LET v == compare_with_reference(ref_rows, test_rows)
    IN  v.row_count_matches /\ v.field_name_matches /\ v.data_matches

\* C18: with two or more successful backends, data_comparison.match is true
\* only if every pair of them agrees on row count, on the field names of
\* the first row and on the sampled values (numbers within 0.01), the pairs
\* without the reference backend included.
C18_MatchMeansEveryPairAgrees ==
    (data_comparison # <<>> /\ data_comparison[1].details.match) =>
        \A a, b \in Range(data_comparison[1].dbs) :
            Agree(test_results[a].rows, test_results[b].rows)

\* C19: comparing A as the reference with B as the candidate gives the
\* same row-count, field-name and data verdicts as comparing B as the
\* reference with A as the candidate.
C19_ComparisonSymmetric ==
    (data_comparison # <<>> /\ Len(data_comparison[1].dbs) = 2) =>
        LET dbs == data_comparison[1].dbs
        IN  data_comparison[1].details = compare_data_samples(test_results, <<dbs[2], dbs[1]>>)

C19_Witness ==
    /\ data_comparison # <<>>
    /\ data_comparison[1].dbs = <<"mysql", "postgresql">>
    /\ Len(test_results["mysql"].rows) = 1
    /\ Len(test_results["postgresql"].rows) = 1
    /\ DictKeySet(test_results["mysql"].rows[1]) = {"a"}
    /\ DictKeySet(test_results["postgresql"].rows[1]) = {"a", "b"}
    /\ ~data_comparison[1].details.field_name_matches
    /\ data_comparison[1].details.data_matches


(***************************************************************************)
(* A run of the test suite: main of tests.py and main of test_runner.py    *)
(* drive one TestRunner through setup_connections, run_all_tests,          *)
(* compare_results, generate_report, print_summary and                     *)
(* teardown_connections.  run_all_tests is a sequence of steps: the        *)
(* executions of BaseTest.run_all (run_on, skip), then the recording of    *)
(* the run.  Writing the report files is taken to succeed.                 *)
(***************************************************************************)
MaxRepeats == 2     \* the largest --repeats
MaxFailures == 1    \* the most executions of one suite run that fail

\* The first two cases of the catalog.
ALL_TESTS == <<"SimpleSelectTest", "CountByGenreTest">>

EntryPoints == {"tests.py", "test_runner.py"}

\* What a native query does in a suite run: it raises, matches no row, or
\* returns a row.
RunnerOutcomes ==
    {[kind |-> "raises", rows |-> <<>>,
      exception |-> [class |-> "OperationalError", message |-> "connection lost"]],
     [kind |-> "QueryResult", rows |-> <<>>, exception |-> NoException],
     [kind |-> "QueryResult", rows |-> <<[key |-> "A", value |-> PyBool(TRUE)]>>,
      exception |-> NoException]}

\* results.items(): the backends of a results dict in insertion order
Items(results_of) ==
    LET Has(db) == db \in DOMAIN results_of
    IN  SelectSeq(RunOrder, Has)

\* The executions that have failed so far in this suite run.
FailuresSoFar ==
    Cardinality({i \in 1..Len(raw_executions) : ~raw_executions[i].success})
        + Cardinality({db \in DOMAIN test_results : ~Success(test_results[db])})

\* records the executions that succeeded only
successful_records(test_name, run_num, results_of) ==
    LET Ok(db) == db \in DOMAIN results_of /\ Success(results_of[db])
        dbs == SelectSeq(RunOrder, Ok)
    IN  [i \in 1..Len(dbs) |->
            [test_name |-> test_name, database |-> dbs[i], run_number |-> run_num + 1,
             execution_time_ms |-> results_of[dbs[i]].execution_time,
             row_count |-> results_of[dbs[i]].row_count,
             success |-> TRUE, error |-> None]]

\* for db_name, result in results.items(): the execution_record of each
execution_records(test_name, run_num, results_of) ==
    LET dbs == Items(results_of)
    IN  [i \in 1..Len(dbs) |->
            [test_name |-> test_name, database |-> dbs[i], run_number |-> run_num + 1,
             execution_time_ms |-> results_of[dbs[i]].execution_time,
             row_count |-> results_of[dbs[i]].row_count,
             success |-> Success(results_of[dbs[i]]),
             error |-> results_of[dbs[i]].error]]

InitRunner ==
    /\ entry \in EntryPoints
    /\ repeats \in 1..MaxRepeats
    /\ runner_pc = "setup"
    /\ case = 1
    /\ run_number = 1
    /\ all_run_results = <<>>
    /\ raw_executions = <<>>
    /\ suite_results = <<>>
    /\ comparison_results = <<>>
    /\ data_comparison = <<>>
    /\ statistics = <<>>
    /\ printed = <<>>
    /\ invoked = {}
    /\ critical_error = <<>>
    /\ exit_status = <<>>
    /\ open_connections = {}
    /\ raw_row = <<>>
    /\ norm_rows = <<>>
    /\ connections = {}
    /\ native = <<>>
    /\ limit = 100
    /\ test_results = <<>>
    /\ run_pc = "idle"
    /\ InitIdleBuilder

\* runner.setup_connections(), then in tests.py `if not runner.connections:
\* return 1`, then the call of run_all_tests.  A backend whose connection
\* fails is left out of connections.
setup_connections(established) ==
    /\ runner_pc = "setup"
    /\ connections' = established
    /\ open_connections' = established
    /\ IF entry = "tests.py" /\ established = {}
       THEN /\ invoked' = {"setup_connections"}
            /\ exit_status' = <<1>>
            /\ runner_pc' = "teardown"
            /\ UNCHANGED run_pc
       ELSE /\ invoked' = {"setup_connections", "run_all_tests"}
            /\ runner_pc' = "run_all_tests"
            /\ run_pc' = RunOrder[1]
            /\ UNCHANGED exit_status
    /\ UNCHANGED <<builderVars, importVars, raw_row, norm_rows, native, test_results,
                   entry, repeats, case, run_number, all_run_results, raw_executions,
                   suite_results, comparison_results, data_comparison, statistics,
                   printed, critical_error, limit>>

\* One execution of results = test.run_all(self.connections).
execute(db, outcome) ==
    /\ runner_pc = "run_all_tests"
    /\ ~Success(execute_with_timing(outcome).value[1]) => FailuresSoFar < MaxFailures
    /\ run_on(db, outcome)

not_connected(db) ==
    /\ runner_pc = "run_all_tests"
    /\ skip(db)

\* After run_all returned: the execution records of the run, and after the
\* last run of the case its statistics and its entry of self.test_results.
record_run ==
    /\ runner_pc = "run_all_tests"
    /\ run_pc = "returned"
    /\ raw_executions' =
           raw_executions \o execution_records(ALL_TESTS[case], run_number - 1, test_results)
    /\ native' = <<>>
    /\ test_results' = <<>>
    /\ IF run_number < repeats
       THEN /\ run_number' = run_number + 1
            /\ all_run_results' = Append(all_run_results, test_results)
            /\ run_pc' = RunOrder[1]
            /\ UNCHANGED <<case, suite_results, runner_pc>>
       ELSE /\ suite_results' =
                   Append(suite_results,
                          [test |-> ALL_TESTS[case],
                           results |-> test_results,
                           statistics |->
                               IF repeats > 1
                               THEN <<calculate_statistics(Append(all_run_results, test_results))>>
                               ELSE None])
            /\ run_number' = 1
            /\ all_run_results' = <<>>
            /\ IF case < Len(ALL_TESTS)
               THEN /\ case' = case + 1
                    /\ run_pc' = RunOrder[1]
                    /\ UNCHANGED runner_pc
               ELSE /\ runner_pc' = "compare_results"
                    /\ run_pc' = "idle"
                    /\ UNCHANGED case
    /\ UNCHANGED <<builderVars, importVars, raw_row, norm_rows, connections, entry, repeats,
                   comparison_results, data_comparison, statistics, printed, invoked,
                   critical_error, exit_status, open_connections, limit>>

\* runner.compare_results(): tests.py calls it if repeats == 1 and
\* --no-comparison was not given, test_runner.py always.
compare_results ==
    /\ runner_pc = "compare_results"
    /\ entry = "tests.py" => repeats = 1
    /\ comparison_results' = [i \in 1..Len(suite_results) |-> compare_case(suite_results[i])]
    /\ invoked' = invoked \cup {"compare_results"}
    /\ runner_pc' = "generate_report"
    /\ UNCHANGED <<builderVars, importVars, raw_row, norm_rows, connections, native,
                   test_results, run_pc, entry, repeats, case, run_number, all_run_results,
                   raw_executions, suite_results, data_comparison, statistics, printed,
                   critical_error, exit_status, open_connections, limit>>

\* tests.py with --repeats above 1 or with --no-comparison
skip_comparison(no_comparison) ==
    /\ runner_pc = "compare_results"
    /\ entry = "tests.py"
    /\ no_comparison \/ repeats > 1
    /\ runner_pc' = "generate_report"
    /\ UNCHANGED <<builderVars, importVars, raw_row, norm_rows, connections, native,
                   test_results, run_pc, entry, repeats, case, run_number, all_run_results,
                   raw_executions, suite_results, comparison_results, data_comparison,
                   statistics, printed, invoked, critical_error, exit_status, open_connections, limit>>

\* The exception _generate_markdown_report ends with.  With repeats above 1
\* the row of a backend whose statistics have a mean formats std_ms, which
\* is None when std is the int 0 of a single successful run (measured times
\* are taken to be positive and distinct); every comparison entry is read
\* at 'row_count_match' and 'data_sample_match', and no entry has the
\* latter.
markdown_raises ==
    IF /\ repeats > 1
       /\ \E i \in 1..Len(suite_results) :
              \E db \in DOMAIN suite_results[i].statistics[1] :
                  /\ suite_results[i].statistics[1][db].mean # None
                  /\ suite_results[i].statistics[1][db].std = IntZero
    THEN <<"TypeError">>
    ELSE IF comparison_results # <<>> THEN <<"KeyError">>
    ELSE <<>>

\* What ends the try block of main with an exception: `except Exception:
\* return 1` in tests.py, a traceback and exit status 1 in test_runner.py.
critical(error) ==
    /\ critical_error' = error
    /\ exit_status' = <<1>>
    /\ runner_pc' = "teardown"

\* runner.generate_report(csv_only=...); test_runner.py has no --csv-only.
generate_report(csv_only) ==
    /\ runner_pc = "generate_report"
    /\ entry = "test_runner.py" => ~csv_only
    /\ invoked' = invoked \cup {"generate_report"}
    /\ IF ~csv_only /\ markdown_raises # <<>>
       THEN critical(markdown_raises)
       ELSE /\ runner_pc' = "print_summary"
            /\ UNCHANGED <<critical_error, exit_status>>
    /\ UNCHANGED <<builderVars, importVars, raw_row, norm_rows, connections, native,
                   test_results, run_pc, entry, repeats, case, run_number, all_run_results,
                   raw_executions, suite_results, comparison_results, data_comparison,
                   statistics, printed, open_connections, limit>>

\* The comparisons print_summary prints before it ends: an entry without
\* 'row_count_match', or with a true one (then 'data_sample_match' is
\* read), raises KeyError.
RECURSIVE PrintedBeforeError(_)
PrintedBeforeError(comps) ==
    IF comps = <<>> THEN <<>>
    ELSE IF "row_count_match" \in DOMAIN Head(comps) /\ ~Head(comps).row_count_match
         THEN <<"mismatch">> \o PrintedBeforeError(Tail(comps))
         ELSE <<>>

\* runner.print_summary(), then `return 0`
print_summary ==
    /\ runner_pc = "print_summary"
    /\ invoked' = invoked \cup {"print_summary"}
    /\ printed' = PrintedBeforeError(comparison_results)
    /\ IF Len(printed') < Len(comparison_results)
       THEN critical(<<"KeyError">>)
       ELSE /\ exit_status' = <<0>>
            /\ runner_pc' = "teardown"
            /\ UNCHANGED critical_error
    /\ UNCHANGED <<builderVars, importVars, raw_row, norm_rows, connections, native,
                   test_results, run_pc, entry, repeats, case, run_number, all_run_results,
                   raw_executions, suite_results, comparison_results, data_comparison,
                   statistics, open_connections, limit>>

\* The connections closed before the close of `raising` raises: dispose and
\* close are called in the order postgresql, mysql, mongodb, neo4j, outside
\* any try block.
ClosedBefore(raising) ==
    IF raising = "none" THEN connections
    ELSE LET at == CHOOSE i \in 1..Len(RunOrder) : RunOrder[i] = raising
         IN  {RunOrder[i] : i \in 1..(at - 1)} \cap connections

\* finally: runner.teardown_connections(), and the process exits.  The close
\* of one connection may raise (raising); the exception leaves the finally
\* block and replaces the return value of main.
teardown_connections(raising) ==
    /\ runner_pc = "teardown"
    /\ raising \in connections \cup {"none"}
    /\ invoked' = invoked \cup {"teardown_connections"}
    /\ open_connections' = open_connections \ ClosedBefore(raising)
    /\ exit_status' = IF raising = "none" THEN exit_status ELSE <<1>>
    /\ runner_pc' = "exited"
    /\ UNCHANGED <<builderVars, importVars, raw_row, norm_rows, connections, native,
                   test_results, run_pc, entry, repeats, case, run_number, all_run_results,
                   raw_executions, suite_results, comparison_results, data_comparison,
                   statistics, printed, critical_error, limit>>

NextRunner ==
    \/ \E established \in SUBSET Backends : setup_connections(established)
    \/ \E db \in Backends, outcome \in RunnerOutcomes : execute(db, outcome)
    \/ \E db \in Backends : not_connected(db)
    \/ record_run
    \/ compare_results
    \/ \E no_comparison \in BOOLEAN : skip_comparison(no_comparison)
    \/ \E csv_only \in BOOLEAN : generate_report(csv_only)
    \/ print_summary
    \/ \E raising \in Backends \cup {"none"} : teardown_connections(raising)

SpecRunner == InitRunner /\ [][NextRunner]_vars


(***************************************************************************)
(* Claims about a suite run (SpecRunner).                                  *)
(***************************************************************************)
\* run_all_tests has returned.
RanAllTests ==
    /\ "run_all_tests" \in invoked
    /\ runner_pc \in {"compare_results", "generate_report", "print_summary",
                      "teardown", "exited"}

ExecutionKey(record) == <<record.test_name, record.database, record.run_number>>

\* C11: after run_all_tests with R repeats over the connections B, the
\* execution log holds exactly one record for every (case, backend in B,
\* run number in 1..R) and no other record, whichever executions failed.
C11_OneRecordPerExecution ==
    RanAllTests =>
        /\ {ExecutionKey(raw_executions[i]) : i \in 1..Len(raw_executions)}
               = Range(ALL_TESTS) \X connections \X (1..repeats)
        /\ Len(raw_executions) = Len(ALL_TESTS) * Cardinality(connections) * repeats

C11_Witness ==
    /\ RanAllTests
    /\ repeats = 2
    /\ connections = {"postgresql", "neo4j"}
    /\ Len(raw_executions) = 8
    /\ ~raw_executions[1].success
    /\ \A i \in 2..8 : raw_executions[i].success

\* C12: with at least one connection the run goes through case execution,
\* report generation and the summary and ends with exit status 0, whatever
\* failed, matched or could not be compared.
C12_OnlyZeroBackendsIsFatal ==
    (runner_pc = "exited" /\ connections # {}) =>
        /\ {"run_all_tests", "generate_report", "print_summary"} \subseteq invoked
        /\ exit_status = <<0>>

\* C13: if no connection is established the run stops with a failure
\* status before any case executes: run_all_tests, compare_results and
\* generate_report are not invoked and the execution log stays empty, from
\* either entry point.
C13_NoConnectionStopsTheRun ==
    (runner_pc # "setup" /\ connections = {}) =>
        /\ invoked \cap {"run_all_tests", "compare_results", "generate_report"} = {}
        /\ raw_executions = <<>>
        /\ runner_pc = "exited" => exit_status = <<1>>

\* C16: with R > 1 compare_results is never invoked and comparison_results
\* stays empty, from either entry point.
C16_ComparisonOnlyForOneRun ==
    repeats > 1 => ("compare_results" \notin invoked /\ comparison_results = <<>>)

\* C17: a case with fewer than two successful backends gets one entry with
\* comparison_possible false and the reason 'Insufficient successful
\* results', without a row-count or data verdict, and the summary reports
\* it as insufficient data, never as a mismatch.
C17_InsufficientDataIsDistinct ==
    \A i \in 1..Len(comparison_results) :
        Len(comparison_results[i].successful_databases) < 2 =>
            /\ ~comparison_results[i].comparison_possible
            /\ comparison_results[i].reason = "Insufficient successful results"
            /\ DOMAIN comparison_results[i] \cap {"row_count_match", "data_comparison"} = {}
            /\ "print_summary" \in invoked =>
                   (Len(printed) >= i /\ printed[i] = "insufficient data")

\* C20: the R executions of a case against one backend are consecutive,
\* with no execution against another backend between them, and the
\* executions of a case precede those of the next case.
C20_RepeatsBackToBack ==
    \A i, k \in 1..Len(raw_executions) :
        i < k =>
            LET first == raw_executions[i]
                last == raw_executions[k]
            IN  /\ (first.test_name = last.test_name /\ first.database = last.database) =>
                       \A j \in i..k : raw_executions[j].database = first.database
                /\ first.test_name = last.test_name =>
                       \A j \in i..k : raw_executions[j].test_name = first.test_name


(***************************************************************************)
(* Further claims about the dimension and association tables               *)
(* (SpecBuilder).                                                          *)
(***************************************************************************)
\* What a cell of a list column contributes: nothing for null or an empty
\* list, the one value for a string, the listed values for a list.
Contributed(v) == IF v.kind = "null" THEN {} ELSE Range(v.items)

\* C24: the builder never raises for a missing optional value: whether a
\* game's developers, publishers, genres or categories is null, an empty
\* list, a string or a list, and its tags null or a map, every extract_*
\* and create_game_*_associations call completes, and each dimension holds
\* the non-empty values contributed.
C24_BuilderNeverRaises ==
    /\ pc # "raised"
    /\ \A col \in ListColumns :
           Built(col) =>
               FrameNames(normalized_data[col])
                   = UNION {Contributed(games[i][col]) : i \in 1..Len(games)} \ {""}

VotesOfTag(assoc, id) ==
    SumSeq([k \in 1..Len(assoc) |-> IF assoc[k]["tag_id"] = id THEN assoc[k]["vote_count"] ELSE 0])

\* C30: every tag key of every game's tag map has a row in the Tag
\* dimension, and the total_votes of every tag is the sum of vote_count
\* over the Game-Tag association rows that carry the tag's id.
C30_TagVotesConsistent ==
    Built("game_tags") =>
        LET tags == normalized_data["tags"]
            assoc == normalized_data["game_tags"]
        IN  /\ \A i \in 1..Len(games) :
                   games[i].tags.kind = "dict" =>
                       \A k \in 1..Len(games[i].tags.items) :
                           games[i].tags.items[k][1] \in FrameNames(tags)
            /\ \A id \in 1..Len(tags) : tags[id].total_votes = VotesOfTag(assoc, id)

C30_Witness ==
    /\ pc = "done"
    /\ Len(games) = 2
    /\ games[1].tags = TagDict(<<<<"RPG", 2>>, <<"Action", 0>>>>)
    /\ games[2].tags = TagDict(<<<<"RPG", 3>>>>)
    /\ normalized_data["tags"][2] = [name |-> "RPG", total_votes |-> 5]


(***************************************************************************)
(* The projection into the backends: failures and the tables persisted.    *)
(***************************************************************************)
\* C25: an import into an initialised backend that returns False has status
\* 'failed' recorded for that backend, and leaves the results, the return
\* values and the stores of the other backends, the Game table and the
\* normalized tables as they were (so the other imports remain enabled).
C25_FailureStaysWithBackend ==
    [][\A b \in Backends :
          (b \in importers /\ returned[b] = "none" /\ returned'[b] = "False") =>
              /\ results'[b] = "failed"
              /\ \A o \in Backends \ {b} :
                     /\ results'[o] = results[o]
                     /\ returned'[o] = returned[o]
                     /\ stored'[o] = stored[o]
              /\ UNCHANGED <<builderVars, importers>>]_vars

C25_Witness ==
    /\ results["mongodb"] = "failed"
    /\ returned["mongodb"] = "False"
    /\ results["mysql"] = "success"
    /\ returned["postgresql"] = "none"
    /\ "postgresql" \in importers

\* No association frame holds the same (game, dimension) pair twice.
NoRepeatedPair ==
    \A col \in DimTables :
        LET df == normalized_data[AssocTable(col)]
        IN  \A k, l \in 1..Len(df) :
                k # l => \E f \in DOMAIN df[k] \ {"vote_count"} : df[k][f] # df[l][f]

\* C26: an import into an initialised backend whose store accepts every
\* write ends with status 'success' and the backend holds the rows of every
\* derived table.
C26_AcceptingBackendHoldsEveryTable ==
    [][\A b \in Backends, drop \in BOOLEAN :
          (pc = "done" /\ b \in importers /\ NoRepeatedPair
              /\ import_to(b, drop, Len(Steps) + 1)) =>
              /\ results'[b] = "success"
              /\ \A t \in Range(Steps) :
                     /\ t \in DOMAIN stored'[b]
                     /\ Len(stored'[b][t].rows) >= Len(normalized_data[t])]_vars

(***************************************************************************)
(* DataNormalizer.simulate_price_history.  A price is a float kept in      *)
(* thousandths, a date is a day number, and the random module is a stream  *)
(* of draws: the k-th record takes the k-th draw after the stream's        *)
(* position, and every position is a possible start.                       *)
(***************************************************************************)
MaxPriceGames == 2    \* rows of the Game table
MaxMonths == 2        \* largest months_back

\* The price and discount cells of a game row.
PriceCells == {PyNone, PyFloat(0), PyFloat(-4990), PyFloat(19990)}

DiscountCells == {PyNone, PyInt(40)}

PricedGameTables(n) ==
    {[i \in 1..n |-> [appid |-> AppId(i), price |-> f[i].price, discount |-> f[i].discount]] :
        f \in [1..n -> [price : PriceCells, discount : DiscountCells]]}

RunDates == {730, 745}

\* pd.notna of a scalar
notna(value) == value.t # "NoneType"

\* range(N, 0, -1): the current month is left out.
months_before_now(N) == [i \in 1..N |-> N - (i - 1)]

\* range(months_back, -1, -1)
month_steps(N) == [i \in 1..(N + 1) |-> N - (i - 1)]

\* Factors outside [0.9, 1.1].
wide_variation == <<850, 1000, 1150>>

\* random.uniform(0.9, 1.1), in thousandths: both ends and values between.
price_variation == <<900, 955, 1000, 1042, 1100>>

\* random.choice([10, 15, 20, 25, 33, 50, 75]) when random.random() < 0.3,
\* else the initial 0.
historical_discount == <<0, 10, 15, 20, 25, 33, 50, 75>>

Draw(stream, position, k) == stream[((position + k) % Len(stream)) + 1]

\* round(x, 2) of a positive x given in millionths; the result in thousandths.
round2(millionths) == 10 * ((millionths + 5000) \div 10000)

\* The inner loop: the records of one game; emitted is the number of records
\* appended before it.
game_records(game, N, base, emitted, v, d) ==
    LET steps == month_steps(N)
    IN  [i \in 1..Len(steps) |->
            [game_appid |-> game.appid,
             price |-> PyFloat(round2(game.price.n * Draw(price_variation, v, emitted + i))),
             discount_percent |-> Draw(historical_discount, d, emitted + i),
             recorded_date |-> base - 30 * steps[i]]]

RECURSIVE price_history(_, _, _, _, _, _)
price_history(df, N, base, acc, v, d) ==
    IF df = <<>> THEN acc
    ELSE LET game == Head(df)
         IN  IF notna(game.price) /\ game.price.n > 0
             THEN price_history(Tail(df), N, base,
                                acc \o game_records(game, N, base, Len(acc), v, d), v, d)
             ELSE price_history(Tail(df), N, base, acc, v, d)

InitPrice ==
    /\ \E n \in 0..MaxPriceGames : games \in PricedGameTables(n)
    /\ months_back \in 0..MaxMonths
    /\ base_date \in RunDates
    /\ reviews = <<>>
    /\ pc = "game_price_history"
    /\ normalized_data = <<>>
    /\ rerun = NoRerun
    /\ InitManager
    /\ InitHarness

\* normalized_data['game_price_history'] =
\*     DataNormalizer.simulate_price_history(games_df, months_back)
simulate_price_history(v, d) ==
    /\ pc = "game_price_history"
    /\ normalized_data' = Put(normalized_data, "game_price_history",
                              price_history(games, months_back, base_date, <<>>, v, d))
    /\ pc' = "done"
    /\ UNCHANGED <<games, reviews, months_back, base_date, rerun, importVars, harnessVars>>

NextPrice ==
    \E v \in 1..Len(price_variation), d \in 1..Len(historical_discount) :
        simulate_price_history(v, d)

SpecPrice == InitPrice /\ [][NextPrice]_vars

RecordsOf(appid) ==
    LET OfGame(r) == r.game_appid = appid
    IN  SelectSeq(normalized_data["game_price_history"], OfGame)

\* C22: a game whose price is not null and greater than 0 has exactly
\* months_back + 1 records, the k-th dated base_date - 30 * (months_back -
\* (k - 1)), so the dates are distinct and the oldest comes first; a game
\* whose price is null, zero or negative has no record.
C22_OneRecordPerMonthStep ==
    Built("game_price_history") =>
        \A i \in 1..Len(games) :
            LET recs == RecordsOf(games[i].appid)
            IN  IF games[i].price.t # "NoneType" /\ games[i].price.n > 0
                THEN /\ Len(recs) = months_back + 1
                     /\ \A k \in 1..Len(recs) :
                            recs[k].recorded_date = base_date - 30 * (months_back - (k - 1))
                     /\ \A k, l \in 1..Len(recs) :
                            k < l => recs[k].recorded_date < recs[l].recorded_date
                ELSE recs = <<>>

C22_Witness ==
    /\ Built("game_price_history")
    /\ months_back = 2
    /\ Len(games) = 2
    /\ games[1].price = PyNone
    /\ games[2].price = PyFloat(19990)
    /\ Len(normalized_data["game_price_history"]) = 3
    /\ normalized_data["game_price_history"][1].recorded_date = base_date - 60

GameOf(appid) == games[CHOOSE i \in 1..Len(games) : games[i].appid = appid]

\* C23: every record has a discount_percent of 0, 10, 15, 20, 25, 33, 50 or
\* 75 and a price in whole cents within half a cent of the interval from 0.9
\* to 1.1 times the price of its game; for a game priced 19.99 the price is
\* within [17.99, 21.99].
C23_DrawsStayInRange ==
    Built("game_price_history") =>
        \A k \in 1..Len(normalized_data["game_price_history"]) :
            LET rec == normalized_data["game_price_history"][k]
                current_price == GameOf(rec.game_appid).price.n
            IN  /\ rec.discount_percent \in {0, 10, 15, 20, 25, 33, 50, 75}
                /\ rec.price.n % 10 = 0
                /\ 900 * current_price - 5000 <= 1000 * rec.price.n
                /\ 1000 * rec.price.n <= 1100 * current_price + 5000
                /\ current_price = 19990 => (17990 <= rec.price.n /\ rec.price.n <= 21990)

C23_Witness ==
    /\ Built("game_price_history")
    /\ Len(normalized_data["game_price_history"]) = 3
    /\ normalized_data["game_price_history"][1].price = PyFloat(21990)
    /\ normalized_data["game_price_history"][2].price = PyFloat(17990)
    /\ normalized_data["game_price_history"][3].discount_percent = 75

(***************************************************************************)
(* The two row-count verdicts of a comparison record.                      *)
(***************************************************************************)
\* C28: in every comparison record with comparison_possible, row_count_match
\* (one distinct row_count among the successful backends) is true exactly
\* when data_comparison.row_count_matches (every other backend has as many
\* rows as the reference) is true.
C28_RowCountVerdictsAgree ==
    \A i \in 1..Len(comparison_results) :
        comparison_results[i].comparison_possible =>
            (comparison_results[i].row_count_match
                 <=> comparison_results[i].data_comparison.row_count_matches)

C28_Witness ==
    /\ Len(comparison_results) = 1
    /\ comparison_results[1].comparison_possible
    /\ ~comparison_results[1].row_count_match
    /\ test_results["postgresql"].row_count = 1
    /\ test_results["mysql"].row_count = 1
    /\ test_results["mongodb"].row_count = 0

(***************************************************************************)
(* The values of the statistics module over a list of timings.  A median   *)
(* may fall between two timings, so it is kept doubled.                    *)
(***************************************************************************)
Occurrences(s, x) == Cardinality({i \in 1..Len(s) : s[i] = x})

Ordered(timings) ==
    CHOOSE s \in [1..Len(timings) -> Range(timings)] :
        /\ \A i \in 1..(Len(s) - 1) : s[i] <= s[i + 1]
        /\ \A x \in Range(timings) : Occurrences(s, x) = Occurrences(timings, x)

TwiceMedian(timings) ==
    LET s == Ordered(timings)
        n == Len(s)
    IN  IF n % 2 = 1 THEN 2 * s[(n + 1) \div 2] ELSE s[n \div 2] + s[(n \div 2) + 1]

\* The execution times of the runs of db in which it succeeded.
SuccessfulTimings(db) ==
    LET ok == SuccessfulRuns(all_run_results, db)
    IN  [i \in 1..Len(ok) |-> ok[i][db].execution_time]

\* C29: for each backend successes + failures is the number of runs and
\* success_rate is successes over the number of runs; mean, median, min and
\* max are taken over the timings of the successful runs, in which the 0.0
\* of a failed run does not occur; and with at least one success
\* min <= median <= max and min <= mean <= max.
C29_StatisticsOverSuccessfulRuns ==
    statistics # <<>> =>
        \A db \in connections :
            LET st == statistics[1][db]
                R == Len(all_run_results)
                failed == {i \in 1..R : all_run_results[i][db].error # None}
            IN  /\ st.successes + st.failures = R
                /\ st.failures = Cardinality(failed)
                /\ st.success_rate = (st.successes * 100) \div R
                /\ st.successes > 0 =>
                       LET timings == st.mean[1].of
                           n == Len(timings)
                           lowest == CHOOSE x \in Range(timings) : \A y \in Range(timings) : x <= y
                           highest == CHOOSE x \in Range(timings) : \A y \in Range(timings) : y <= x
                       IN  /\ timings = SuccessfulTimings(db)
                           /\ n = st.successes
                           /\ 0 \notin Range(timings)
                           /\ \A f \in {"median", "min", "max"} : st[f] = Statistic(f, timings)
                           /\ st.mean = Statistic("mean", timings)
                           /\ 2 * lowest <= TwiceMedian(timings)
                           /\ TwiceMedian(timings) <= 2 * highest
                           /\ n * lowest <= SumSeq(timings)
                           /\ SumSeq(timings) <= n * highest

C29_Witness ==
    /\ statistics # <<>>
    /\ connections = {"postgresql", "mysql"}
    /\ statistics[1]["postgresql"].successes = 3
    /\ statistics[1]["postgresql"].failures = 1
    /\ statistics[1]["postgresql"].success_rate = 75
    /\ statistics[1]["postgresql"].median = Statistic("median", <<3, 5, 5>>)
    /\ TwiceMedian(<<3, 5, 5>>) = 10
    /\ statistics[1]["mysql"].successes = 4

(***************************************************************************)
(* The connections at the end of a suite run.                              *)
(***************************************************************************)
\* C21: when main has returned, no connection established by
\* setup_connections is open, except one whose own close raised: the
\* failure of one close leaves no other connection open.
C21_ConnectionsReleased ==
    runner_pc = "exited" => Cardinality(open_connections) <= 1

(***************************************************************************)
(* The catalog cases PriceHistoryTest and MultiJoinTest: what the query of *)
(* each backend returns over the same stored data.  A stored game carries  *)
(* its price, the names of its developers in ascending order and the       *)
(* number of game_price_history records stored for it; the rows are given  *)
(* in the order of the query's ORDER BY.                                   *)
(***************************************************************************)
MaxStoredGames == 2    \* games in the stores
MaxLimit == 5          \* largest limit

StoredGames(n) ==
    {[i \in 1..n |-> [appid |-> AppId(i), price |-> f[i].price,
                      developers |-> f[i].developers, price_points |-> f[i].price_points]] :
        f \in [1..n -> [price : {10, 30},
                        developers : {<<>>, <<"Action">>, <<"Action", "RPG">>},
                        price_points : 0..2]]}

Take(rows, n) == SubSeq(rows, 1, IF n < Len(rows) THEN n ELSE Len(rows))

\* WHERE g.price BETWEEN 20 AND 40
PriceBetween(g) == 20 <= g.price /\ g.price <= 40

\* The LEFT JOIN of one game with its developers: a game without one gives a
\* single row whose developer is null (<<>>).
GameRows(g) ==
    IF g.developers = <<>> THEN <<[appid |-> g.appid, developer |-> <<>>]>>
    ELSE [k \in 1..Len(g.developers) |-> [appid |-> g.appid, developer |-> <<g.developers[k]>>]]

RECURSIVE JoinedRows(_)
JoinedRows(gs) == IF gs = <<>> THEN <<>> ELSE GameRows(Head(gs)) \o JoinedRows(Tail(gs))

Returns(name, rows) ==
    [kind |-> "QueryResult", rows |-> rows, exception |-> NoException, test_name |-> name]

Raises(name, class, message) ==
    [kind |-> "raises", rows |-> <<>>, exception |-> [class |-> class, message |-> message],
     test_name |-> name]

\* MultiJoinTest.run_postgresql, run_mysql and run_neo4j: filter, join,
\* order, LIMIT {self.limit}.
MultiJoinTest_run_joined(data, lim) ==
    Returns("multi_join_game_details", Take(JoinedRows(SelectSeq(data, PriceBetween)), lim))

\* MultiJoinTest.run_mongodb: the games are limited to min(20, limit // 5)
\* before the lookups; a $limit of 0 is rejected by the server.
MultiJoinTest_run_mongodb(data, lim) ==
    LET games_limit == IF 20 < lim \div 5 THEN 20 ELSE lim \div 5
    IN  IF games_limit = 0
        THEN Raises("multi_join_game_details", "OperationalError", "the limit must be positive")
        ELSE Returns("multi_join_game_details",
                     Take(JoinedRows(Take(SelectSeq(data, PriceBetween), games_limit)), lim))

\* ORDER BY price_points DESC, game_appid ASC
RECURSIVE InsertGroup(_, _)
InsertGroup(r, rows) ==
    IF rows = <<>> THEN <<r>>
    ELSE IF \/ r.price_points > Head(rows).price_points
            \/ (r.price_points = Head(rows).price_points /\ r.game_appid < Head(rows).game_appid)
         THEN <<r>> \o rows
         ELSE <<Head(rows)>> \o InsertGroup(r, Tail(rows))

\* GROUP BY game_appid with COUNT(*) over game_price_history, ordered.
RECURSIVE GroupedRows(_)
GroupedRows(gs) ==
    IF gs = <<>> THEN <<>>
    ELSE IF Head(gs).price_points = 0 THEN GroupedRows(Tail(gs))
    ELSE InsertGroup([game_appid |-> Head(gs).appid, price_points |-> Head(gs).price_points],
                     GroupedRows(Tail(gs)))

\* PriceHistoryTest.run_mysql, run_mongodb and run_neo4j
PriceHistoryTest_run_grouped(data, lim) ==
    Returns("price_history_analysis", Take(GroupedRows(data), lim))

\* PriceHistoryTest.run_postgresql: the statement calls AVGIN, which is not
\* a function of PostgreSQL.
PriceHistoryTest_run_postgresql(data, lim) ==
    Raises("price_history_analysis", "OperationalError", "function avgin does not exist")

QueryCases == {"price_history_analysis", "multi_join_game_details"}

\* test.run_<db>: what the native query of the case does on the backend.
run_native(name, db, data, lim) ==
    IF name = "multi_join_game_details"
    THEN IF db = "mongodb" THEN MultiJoinTest_run_mongodb(data, lim)
         ELSE MultiJoinTest_run_joined(data, lim)
    ELSE IF db = "postgresql" THEN PriceHistoryTest_run_postgresql(data, lim)
         ELSE PriceHistoryTest_run_grouped(data, lim)

InitQueries ==
    /\ \E n \in 0..MaxStoredGames : games \in StoredGames(n)
    /\ limit \in 1..MaxLimit
    /\ connections = Backends
    /\ native = <<>>
    /\ raw_row = <<>>
    /\ norm_rows = <<>>
    /\ test_results = <<>>
    /\ run_pc = "idle"
    /\ InitIdleRunner
    /\ reviews = <<>>
    /\ pc = Steps[1]
    /\ normalized_data = <<>>
    /\ rerun = NoRerun
    /\ months_back = 12
    /\ base_date = 0
    /\ InitManager

\* The native queries of one case, run on the four backends over the same
\* stored data.
run_case(name) ==
    /\ native = <<>>
    /\ native' = [db \in connections |-> run_native(name, db, games, limit)]
    /\ UNCHANGED <<builderVars, importVars, raw_row, norm_rows, connections, test_results,
                   run_pc, limit, runnerVars>>

NextQueries == \E name \in QueryCases : run_case(name)

SpecQueries == InitQueries /\ [][NextQueries]_vars

\* C27: over the same stored data and for every limit >= 1, the queries of
\* the four backends of a case all return, and return the same rows in the
\* same order.
C27_BackendsExpressSameQuery ==
    native # <<>> =>
        \A a, b \in connections :
            /\ native[a].kind = "QueryResult"
            /\ native[a].rows = native[b].rows

=============================================================================
